---- MODULE Spec2Model ----
(***************************************************************************)
(* A model of src/lambda_function.py: the Lambda handler of a Bedrock      *)
(* chatbot.  Several handler instances run concurrently against one        *)
(* DynamoDB table (the conversation store) and one Bedrock runtime (the    *)
(* inference backend).  Each instance runs one request at a time, as a     *)
(* sequence of steps separated by the external calls the code makes:       *)
(* get_item, invoke_model, put_item.                                       *)
(*                                                                         *)
(* Texts are run-length encoded: a text is a sequence of chunks            *)
(* [c |-> piece, n |-> repetitions].  A chunk of a user message repeats    *)
(* one character; the chunk " " is whitespace.  This keeps a message of    *)
(* 10,001 characters a value of two or three chunks.                       *)
(***************************************************************************)
EXTENDS Integers, Sequences, FiniteSets, TLC

(***************************************************************************)
(* Bounds of the model.                                                    *)
(***************************************************************************)
\* Requests the single instance of the "mixed" profile may receive.
MaxMixedRequests == 1
\* Requests the two instances of the "race" profile may receive in total.
MaxRaceRequests == 2
\* Requests the single instance of the "chat" profile may receive.
MaxChatRequests == 12
\* Failures (store read, store write, backend) injected in one behaviour.
MaxFaults == 2
\* The clock runs from 0 to MaxClock seconds (it stands still in the race profile).
MaxClock == 1

(***************************************************************************)
(* Program constants.                                                      *)
(***************************************************************************)
\* len(message) > 10000
MaxMessageLength == 10000
\* if len(messages) > 20: messages = messages[-20:]
MaxStoredMessages == 20
\* ttl = int(time.time()) + (24 * 60 * 60)
TtlSeconds == 24 * 60 * 60

Instances == {1, 2}

(***************************************************************************)
(* Texts.                                                                  *)
(***************************************************************************)
Chunk(c, n) == [c |-> c, n |-> n]

Lit(s) == <<Chunk(s, 1)>>

Rep(c, n) == IF n = 0 THEN <<>> ELSE <<Chunk(c, n)>>

EmptyText == <<>>

IsSpace(ch) == ch.c = " "

RECURSIVE StrLen(_)
\* len(text), for a text whose chunks repeat single characters
StrLen(s) == IF s = <<>> THEN 0 ELSE Head(s).n + StrLen(Tail(s))

\* str.strip(): the text without its leading and trailing whitespace
Strip(s) ==
    LET inner == {k \in 1..Len(s) : ~IsSpace(s[k])}
    IN  IF inner = {} THEN EmptyText
        ELSE LET first == CHOOSE k \in inner : \A j \in inner : k <= j
                 last == CHOOSE k \in inner : \A j \in inner : j <= k
             IN  SubSeq(s, first, last)

\* 'piece' in text, for the pieces a model id is made of
Contains(s, piece) == \E k \in 1..Len(s) : s[k].c = piece

\* messages[-n:]
LastN(s, n) == IF Len(s) > n THEN SubSeq(s, Len(s) - n + 1, Len(s)) ELSE s

(***************************************************************************)
(* JSON values, as json.loads builds them and as the code reads them.      *)
(* Numbers are held in tenths, so that 0.7 and int(5.7) can be told apart. *)
(***************************************************************************)
Absent == [t |-> "absent"]

Null == [t |-> "null"]

Str(s) == [t |-> "str", v |-> s]

Num(k) == [t |-> "num", tenths |-> k]

JsonList == [t |-> "list"]

NotJson == [t |-> "invalid"]

\* the keys of the request body the handler reads; a key the body lacks is Absent
Obj(message, session_id, model_id, max_tokens, temperature) ==
    [t |-> "obj",
     f |-> [message |-> message, session_id |-> session_id, model_id |-> model_id,
            max_tokens |-> max_tokens, temperature |-> temperature]]

EmptyObj == Obj(Absent, Absent, Absent, Absent, Absent)

\* a body string, by what json.loads makes of it
BodyText(parsed) == [t |-> "str", json |-> parsed]

\* Python's truth value of a JSON value: "if session_id:"
Truthy(v) ==
    CASE v.t = "str" -> v.v # EmptyText
      [] v.t = "num" -> v.tenths # 0
      [] v.t = "list" -> TRUE
      [] OTHER -> FALSE

(***************************************************************************)
(* Exceptions and results.  str(e) of an exception is its text and         *)
(* argument, without its type.                                             *)
(***************************************************************************)
NoArg == [t |-> "none"]

Exc(type, text, arg) == [type |-> type, text |-> text, arg |-> arg]

StrOf(e) == [text |-> e.text, arg |-> e.arg]

Ok(v) == [ok |-> TRUE, v |-> v]

Err(e) == [ok |-> FALSE, exc |-> e]

\* the numerals the model's strings spell, in tenths
Numerals == ("1000" :> 10000) @@ ("0.7" :> 7) @@ ("256" :> 2560)

IsNumeral(s) == Len(s) = 1 /\ s[1].n = 1 /\ s[1].c \in DOMAIN Numerals

\* int(x)
PyInt(v) ==
    CASE v.t = "num" -> Ok(v.tenths \div 10)
      [] v.t = "str" ->
            IF IsNumeral(v.v) /\ Numerals[v.v[1].c] % 10 = 0
            THEN Ok(Numerals[v.v[1].c] \div 10)
            ELSE Err(Exc("ValueError", "invalid literal for int()", v))
      [] OTHER -> Err(Exc("TypeError", "int() argument must be a string or a number", v))

\* float(x), in tenths
PyFloat(v) ==
    CASE v.t = "num" -> Ok(v.tenths)
      [] v.t = "str" ->
            IF IsNumeral(v.v) THEN Ok(Numerals[v.v[1].c])
            ELSE Err(Exc("ValueError", "could not convert string to float", v))
      [] OTHER -> Err(Exc("TypeError", "float() argument must be a string or a number", v))

\* json.loads(s)
JsonLoads(b) ==
    CASE b.t = "str" ->
            IF b.json = NotJson
            THEN Err(Exc("JSONDecodeError", "Expecting value", NoArg))
            ELSE Ok(b.json)
      [] OTHER -> Err(Exc("TypeError", "the JSON object must be str, bytes or bytearray", b))

\* dict.get(key, default); anything but a dict has no attribute 'get'
DictGet(d, key, default) ==
    IF d.t # "obj"
    THEN Err(Exc("AttributeError", "object has no attribute 'get'", d))
    ELSE Ok(IF d.f[key] = Absent THEN default ELSE d.f[key])

\* os.environ.get(name, default)
EnvGet(environment, name, default) ==
    IF environment[name] = Absent THEN default ELSE environment[name]

(***************************************************************************)
(* Responses of lambda_handler.  The Korean texts of the source are given  *)
(* in English.                                                             *)
(***************************************************************************)
headers ==
    [ContentType |-> "application/json; charset=utf-8",
     AccessControlAllowOrigin |-> "*",
     AccessControlAllowMethods |-> "POST, OPTIONS",
     AccessControlAllowHeaders |-> "Content-Type, Authorization, X-Requested-With"]

Msg(text, arg) == [text |-> text, arg |-> arg]

Response(statusCode, body) == [statusCode |-> statusCode, headers |-> headers, body |-> body]

PreflightResponse == Response(200, [message |-> "CORS preflight successful"])

MethodNotAllowedResponse ==
    Response(405, [error |-> Msg("Method not allowed. Use POST method.", NoArg),
                   allowed_methods |-> <<"POST", "OPTIONS">>])

BadJsonResponse ==
    Response(400, [error |-> Msg("invalid JSON format", NoArg), status |-> "error"])

MissingMessageResponse ==
    Response(400, [error |-> Msg("message is required", NoArg),
                   required_fields |-> <<"message">>,
                   optional_fields |-> <<"session_id", "model_id", "max_tokens", "temperature">>])

MessageTooLongResponse(length) ==
    Response(400, [error |-> Msg("message too long, at most 10,000 characters", NoArg),
                   current_length |-> length,
                   max_length |-> MaxMessageLength])

SuccessResponse(response_text, session_id, model_id, processing_time) ==
    Response(200, [response |-> response_text,
                   session_id |-> session_id,
                   model_used |-> model_id,
                   processing_time |-> processing_time,
                   region |-> "ap-northeast-2",
                   status |-> "success"])

\* except ClientError as e
ClientErrorResponse(e) ==
    LET error_code == e.arg.code
        error_message ==
            CASE error_code = "AccessDeniedException" ->
                    Msg("no model access, enable Model access in the AWS console", NoArg)
              [] error_code = "ThrottlingException" ->
                    Msg("too many requests, retry later", NoArg)
              [] error_code = "ValidationException" ->
                    Msg("malformed request", e.arg.message)
              [] OTHER -> Msg("AWS service error", StrOf(e))
    IN  Response(500, [error |-> error_message,
                       error_code |-> error_code,
                       status |-> "aws_error"])

\* except Exception as e
InternalErrorResponse(e) ==
    Response(500, [error |-> Msg("server internal error", StrOf(e)),
                   status |-> "internal_error"])

\* what the handler does with an exception that reaches its except clauses
HandleException(e) ==
    IF e.type = "ClientError" THEN ClientErrorResponse(e) ELSE InternalErrorResponse(e)

DefaultModelId == Str(<<Chunk("anthropic", 1), Chunk(".claude-sonnet-4-20250514-v1:0", 1)>>)

\* the outcomes of the handler's steps
Return(response) == [kind |-> "return", response |-> response]

Raise(e) == [kind |-> "raise", exc |-> e]

Proceed(p) == [kind |-> "proceed", params |-> p]

\* str.strip() of body.get('message', ''): only a str has it
MessageOf(body) ==
    LET got == DictGet(body, "message", Str(EmptyText))
    IN  IF ~got.ok THEN got
        ELSE IF got.v.t # "str"
             THEN Err(Exc("AttributeError", "object has no attribute 'strip'", got.v))
             ELSE Ok(Strip(got.v.v))

\* a validation that rejects a message of exactly 10,000 characters
ValidateFieldsOffByOne(p) ==
    IF p.message = EmptyText THEN Return(MissingMessageResponse)
    ELSE IF StrLen(p.message) >= MaxMessageLength
         THEN Return(MessageTooLongResponse(StrLen(p.message)))
         ELSE Proceed(p)

\* the input validation, once the parameters are extracted
ValidateFields(p) ==
    IF p.message = EmptyText THEN Return(MissingMessageResponse)
    ELSE IF StrLen(p.message) > MaxMessageLength
         THEN Return(MessageTooLongResponse(StrLen(p.message)))
         ELSE Proceed(p)

\* the parameter extraction from the parsed body, then the validation
ExtractParams(body, environment) ==
    LET message == MessageOf(body)
        session_id == DictGet(body, "session_id", Null)
        model_id == DictGet(body, "model_id", DefaultModelId)
        max_tokens_raw == DictGet(body, "max_tokens",
                                  EnvGet(environment, "MAX_TOKENS", Str(Lit("1000"))))
        max_tokens == IF max_tokens_raw.ok THEN PyInt(max_tokens_raw.v) ELSE max_tokens_raw
        temperature_raw == DictGet(body, "temperature",
                                   EnvGet(environment, "TEMPERATURE", Str(Lit("0.7"))))
        temperature == IF temperature_raw.ok THEN PyFloat(temperature_raw.v) ELSE temperature_raw
    IN  IF ~message.ok THEN Return(InternalErrorResponse(message.exc))
        ELSE IF ~max_tokens.ok THEN Return(InternalErrorResponse(max_tokens.exc))
        ELSE IF ~temperature.ok THEN Return(InternalErrorResponse(temperature.exc))
        ELSE ValidateFields([message |-> message.v,
                             session_id |-> session_id.v,
                             model_id |-> model_id.v,
                             max_tokens |-> max_tokens.v,
                             temperature |-> temperature.v])

\* a handler that parses the body before it looks at the method
HandlerEntryParseFirst(event, environment) ==
    IF ~event.serializable
    THEN Raise(Exc("UnboundLocalError", "local variable 'headers' referenced before assignment", NoArg))
    ELSE LET body == JsonLoads(IF event.body = Absent THEN BodyText(EmptyObj) ELSE event.body)
         IN  IF ~body.ok
             THEN IF body.exc.type = "JSONDecodeError"
                  THEN Return(BadJsonResponse)
                  ELSE Return(InternalErrorResponse(body.exc))
             ELSE IF event.httpMethod = Str(Lit("OPTIONS")) THEN Return(PreflightResponse)
             ELSE IF event.httpMethod # Str(Lit("POST")) THEN Return(MethodNotAllowedResponse)
             ELSE ExtractParams(body.v, environment)

\* lambda_handler up to the end of the input validation
HandlerEntry(event, environment) ==
    IF ~event.serializable
    THEN \* json.dumps(event) raises before headers is bound: the except clause
         \* that builds the 500 response reads headers and raises in its turn
         Raise(Exc("UnboundLocalError", "local variable 'headers' referenced before assignment", NoArg))
    ELSE IF event.httpMethod = Str(Lit("OPTIONS")) THEN Return(PreflightResponse)
    ELSE IF event.httpMethod # Str(Lit("POST")) THEN Return(MethodNotAllowedResponse)
    ELSE LET body == JsonLoads(IF event.body = Absent THEN BodyText(EmptyObj) ELSE event.body)
         IN  IF ~body.ok
             THEN IF body.exc.type = "JSONDecodeError"
                  THEN Return(BadJsonResponse)
                  ELSE Return(InternalErrorResponse(body.exc))
             ELSE ExtractParams(body.v, environment)

(***************************************************************************)
(* call_bedrock: the request body of each model family, and the parsing of *)
(* the backend's response.                                                 *)
(***************************************************************************)
Turn(role, content) == [role |-> role, content |-> content]

RECURSIVE FormatTurns(_)
\* the loop of format_messages_for_titan
FormatTurns(messages) ==
    IF messages = <<>> THEN EmptyText
    ELSE LET msg == Head(messages)
             line == IF msg.role = "user"
                     THEN Lit("User: ") \o msg.content \o Lit("\n")
                     ELSE IF msg.role = "assistant"
                          THEN Lit("Assistant: ") \o msg.content \o Lit("\n")
                          ELSE EmptyText
         IN  line \o FormatTurns(Tail(messages))

\* a prompt without the trailing cue
FormatWithoutCue(messages) == FormatTurns(messages)

format_messages_for_titan(messages) == FormatTurns(messages) \o Lit("Assistant: ")

\* 'piece' in model_id: a TypeError unless model_id is a str or a list
ModelContains(model_id, piece) ==
    CASE model_id.t = "str" -> Ok(Contains(model_id.v, piece))
      [] model_id.t = "list" -> Ok(FALSE)
      [] OTHER -> Err(Exc("TypeError", "argument is not iterable", model_id))

\* a dispatch that takes every unknown model id for the first family
ModelFamilyFallback(model_id) ==
    LET a == ModelContains(model_id, "anthropic")
        b == ModelContains(model_id, "amazon.titan")
    IN  IF ~a.ok THEN a
        ELSE IF b.v /\ ~a.v THEN Ok("amazon.titan")
        ELSE Ok("anthropic")

\* the family call_bedrock selects: "anthropic" is tested first
ModelFamily(model_id) ==
    LET a == ModelContains(model_id, "anthropic")
        b == ModelContains(model_id, "amazon.titan")
    IN  IF ~a.ok THEN a
        ELSE IF a.v THEN Ok("anthropic")
        ELSE IF b.v THEN Ok("amazon.titan")
        ELSE Err(Exc("ValueError", "unsupported model", model_id))

\* the body call_bedrock sends to invoke_model
BuildBody(messages, model_id, max_tokens, temperature) ==
    LET family == ModelFamily(model_id)
    IN  IF ~family.ok THEN family
        ELSE IF family.v = "anthropic"
        THEN Ok([anthropic_version |-> "bedrock-2023-05-31",
                 max_tokens |-> max_tokens,
                 messages |-> messages,
                 temperature |-> temperature])
        ELSE Ok([inputText |-> format_messages_for_titan(messages),
                 textGenerationConfig |-> [maxTokenCount |-> max_tokens,
                                           temperature |-> temperature,
                                           topP |-> 9]])

\* response bodies of the backend: the keys the body has, and their lists
AnthropicBody(text) == [keys |-> {"content"}, content |-> <<[text |-> text]>>, results |-> <<>>]

TitanBody(text) == [keys |-> {"results"}, content |-> <<>>, results |-> <<[outputText |-> text]>>]

EmptyBody == [keys |-> {"content", "results"}, content |-> <<>>, results |-> <<>>]

\* response_body[key][0]
FirstOf(response_body, key) ==
    IF key \notin response_body.keys THEN Err(Exc("KeyError", key, NoArg))
    ELSE IF response_body[key] = <<>>
         THEN Err(Exc("IndexError", "list index out of range", NoArg))
         ELSE Ok(response_body[key][1])

\* the response parsing of call_bedrock
ParseResponse(model_id, response_body) ==
    LET family == ModelFamily(model_id).v
        first == FirstOf(response_body, IF family = "anthropic" THEN "content" ELSE "results")
    IN  IF ~first.ok THEN first
        ELSE Ok(IF family = "anthropic" THEN first.v.text ELSE first.v.outputText)

\* what bedrock_runtime.invoke_model does: a response body, a ClientError or
\* another exception
BackendReply(response_body) == [t |-> "ok", body |-> response_body]

BackendClientError(code, message) ==
    [t |-> "raise",
     exc |-> Exc("ClientError", "An error occurred when calling the InvokeModel operation",
                 [code |-> code, message |-> message])]

BackendFailure == [t |-> "raise", exc |-> Exc("ReadTimeoutError", "Read timeout on endpoint URL", NoArg)]

\* raise Exception(f"...: {str(e)}") of call_bedrock's except Exception
ModelCallError(e) == Exc("Exception", "error while calling the model", StrOf(e))

\* a call_bedrock without its "except ClientError: raise" clause
CallBedrockWrapAll(e) == Err(ModelCallError(e))

\* call_bedrock's except clauses: a ClientError is raised again as it is
CallBedrockRaise(e) == IF e.type = "ClientError" THEN Err(e) ELSE Err(ModelCallError(e))

\* call_bedrock from the backend's outcome on
CallBedrockResult(model_id, outcome) ==
    IF outcome.t = "raise" THEN CallBedrockRaise(outcome.exc)
    ELSE LET text == ParseResponse(model_id, outcome.body)
         IN  IF text.ok THEN text ELSE CallBedrockRaise(text.exc)

(***************************************************************************)
(* The conversation store: one item per session id.                        *)
(***************************************************************************)
NoItem == [present |-> FALSE, messages |-> <<>>, updated_at |-> 0, ttl |-> 0]

Item(messages, updated_at, ttl) ==
    [present |-> TRUE, messages |-> messages, updated_at |-> updated_at, ttl |-> ttl]

SessionKeys == {Str(Lit("s1")), Str(Lit("s2"))}

\* a truncation that keeps the oldest turns: messages[:20]
SavedMessagesOldest(messages) ==
    IF Len(messages) > MaxStoredMessages THEN SubSeq(messages, 1, MaxStoredMessages) ELSE messages

\* a truncation to an odd number of turns
SavedMessagesOdd(messages) ==
    IF Len(messages) > MaxStoredMessages - 1 THEN LastN(messages, MaxStoredMessages - 1) ELSE messages

\* the Item of save_conversation_history's put_item
SavedMessages(messages) ==
    IF Len(messages) > MaxStoredMessages THEN LastN(messages, MaxStoredMessages) ELSE messages

\* a write that appends the new exchange to the stored item instead of
\* replacing the item
PutItemAppend(table, key, item, ok) ==
    IF ok
    THEN [table EXCEPT ![key] =
            Item(LastN(@.messages \o LastN(item.messages, 2), MaxStoredMessages),
                 item.updated_at, item.ttl)]
    ELSE table

\* table.put_item(Item=...): the item replaces the one stored under its key
PutItem(table, key, item, ok) == IF ok THEN [table EXCEPT ![key] = item] ELSE table

\* a handler that calls the backend again when call_bedrock raises
AfterCallBedrockRetry(ok) == IF ok THEN "save" ELSE "invoke"

\* a handler that saves the history whatever call_bedrock did
AfterCallBedrockSaveAnyway(ok) == "save"

\* where the handler goes after call_bedrock; it returns when call_bedrock raises
AfterCallBedrock(ok) == IF ok THEN "save" ELSE "done"

\* a record of one external call of a request
Call(op, key, arg, result) == [op |-> op, key |-> key, arg |-> arg, result |-> result]

(***************************************************************************)
(* The inputs: the events the handler receives and what the backend and    *)
(* the store answer.  A behaviour follows one of three profiles:           *)
(*   mixed  one instance, every kind of event, well-formed or not;         *)
(*   race   two instances that receive chat requests concurrently, within  *)
(*          one second of the clock;                                       *)
(*   chat   one instance serving one long conversation, long enough for    *)
(*          the stored history to be truncated.                            *)
(***************************************************************************)
Profiles ==
    {[name |-> "mixed", instances |-> {1}, quota |-> MaxMixedRequests, clock |-> MaxClock],
     [name |-> "race", instances |-> Instances, quota |-> MaxRaceRequests, clock |-> 0],
     [name |-> "chat", instances |-> {1}, quota |-> MaxChatRequests, clock |-> MaxClock]}

Event(httpMethod, body) == [serializable |-> TRUE, httpMethod |-> httpMethod, body |-> body]

Post(body) == Event(Str(Lit("POST")), BodyText(body))

\* the message of the n-th request: n letters between whitespace
NthMessage(n) == Str(<<Chunk(" ", 1), Chunk("a", n), Chunk(" ", 2)>>)

Greeting == Str(<<Chunk("h", 1), Chunk("i", 1)>>)

RichMessages(n) ==
    {Absent, Null, Str(EmptyText), Str(Rep(" ", 3)), NthMessage(n),
     Str(<<Chunk(" ", 1), Chunk("a", MaxMessageLength), Chunk(" ", 1)>>),
     Str(Rep("a", MaxMessageLength + 1)),
     Str(<<Chunk("a", 5000), Chunk(" ", 1), Chunk("b", 5000)>>),
     Str(<<Chunk(" ", 2), Chunk("b", MaxMessageLength + 2)>>)}

TitanModelId == Str(<<Chunk("amazon.titan", 1), Chunk("-text-express-v1", 1)>>)

UnknownModelId == Str(<<Chunk("meta.llama3", 1), Chunk("-8b-instruct-v1:0", 1)>>)

\* max_tokens and temperature, as the body gives them
RichNumbers ==
    {<<Absent, Absent>>,
     <<Num(57), Str(Lit("0.7"))>>,
     <<Str(Lit("abc")), Num(5)>>,
     <<Num(2560), Null>>}

MalformedEvents ==
    {[serializable |-> FALSE, httpMethod |-> Str(Lit("POST")), body |-> Absent]}
    \cup {Event(m, b) : m \in {Str(Lit("OPTIONS")), Str(Lit("GET")), Absent},
                        b \in {Absent, Null, BodyText(NotJson),
                               BodyText(Obj(Greeting, Str(Lit("s1")), Absent, Absent, Absent))}}
    \cup {Event(Str(Lit("POST")), b) :
            b \in {Absent, Null, BodyText(NotJson), BodyText(JsonList), BodyText(Null),
                   BodyText(Str(Lit("hi")))}}

RichEvents(n) ==
    MalformedEvents
    \cup {Post(Obj(m, s, mid, num[1], num[2])) :
            m \in RichMessages(n),
            s \in {Absent, Str(Lit("s1")), Num(70)},
            mid \in {Absent, TitanModelId, UnknownModelId, Null},
            num \in RichNumbers}

RaceEvents(n) ==
    {Post(Obj(m, s, mid, Absent, Absent)) :
        m \in {NthMessage(n), Greeting},
        s \in {Absent, Str(Lit("s1"))},
        mid \in {Absent, UnknownModelId}}

ChatEvents(n) ==
    {Post(Obj(NthMessage(n), Str(Lit("s1")), mid, Absent, Absent)) : mid \in {Absent, TitanModelId}}

\* the events the n-th request of a behaviour is drawn from
Events(p, n) ==
    CASE p.name = "mixed" -> RichEvents(n)
      [] p.name = "race" -> RaceEvents(n)
      [] OTHER -> ChatEvents(n)

Replies(p) == IF p.name = "mixed" THEN {Lit("ok"), Lit("sure")} ELSE {Lit("ok")}

\* what invoke_model may do for a model of the given family: a well-formed
\* reply, or, while faults are left, a body of another shape or an exception
BackendOutcomes(p, family, mayFail) ==
    {BackendReply(IF family = "anthropic" THEN AnthropicBody(r) ELSE TitanBody(r)) :
        r \in Replies(p)}
    \cup (IF mayFail
          THEN {BackendReply(EmptyBody), BackendFailure,
                BackendReply(IF family = "anthropic" THEN TitanBody(Lit("ok"))
                             ELSE AnthropicBody(Lit("ok")))}
               \cup {BackendClientError(c, Msg("backend detail", NoArg)) :
                       c \in {"AccessDeniedException", "ThrottlingException",
                              "ValidationException", "ModelTimeoutException"}}
          ELSE {})

\* the environment variables of the function
Environments ==
    {[DYNAMODB_TABLE |-> t, MAX_TOKENS |-> Absent, TEMPERATURE |-> Absent] :
        t \in {Absent, Str(Lit("chat-sessions"))}}

(***************************************************************************)
(* The state.                                                              *)
(***************************************************************************)
VARIABLES
    profile,               \* the profile of the behaviour
    environ,               \* os.environ
    store,                 \* the DynamoDB table: session id -> item
    now,                   \* time.time(), in seconds
    nreq,                  \* requests received so far
    faults,                \* failures injected so far
    pc,                    \* where each instance's handler stands
    event,                 \* the event each instance is handling
    params,                \* message, session_id, model_id, max_tokens, temperature
    conversation_history,  \* the handler's list of turns
    response_text,         \* what call_bedrock returned
    processing_time,       \* end_time - start_time
    calls,                 \* the external calls of the current request, in order
    response               \* what the handler returned

vars == <<profile, environ, store, now, nreq, faults, pc, event, params,
          conversation_history, response_text, processing_time, calls, response>>

NoEvent == [serializable |-> TRUE, httpMethod |-> Absent, body |-> Absent]

NoParams == [message |-> EmptyText, session_id |-> Null, model_id |-> Null,
             max_tokens |-> 0, temperature |-> 0]

NoResponse == [statusCode |-> 0]

Raised(e) == [statusCode |-> 0, raised |-> e]

Init ==
    /\ profile \in Profiles
    /\ environ \in Environments
    /\ store = [k \in SessionKeys |-> NoItem]
    /\ now = 0
    /\ nreq = 0
    /\ faults = 0
    /\ pc = [i \in Instances |-> "idle"]
    /\ event = [i \in Instances |-> NoEvent]
    /\ params = [i \in Instances |-> NoParams]
    /\ conversation_history = [i \in Instances |-> <<>>]
    /\ response_text = [i \in Instances |-> EmptyText]
    /\ processing_time = [i \in Instances |-> 0]
    /\ calls = [i \in Instances |-> <<>>]
    /\ response = [i \in Instances |-> NoResponse]

\* a table name that is never missing
TableAlwaysConfigured == TRUE

\* the table is configured: os.environ.get('DYNAMODB_TABLE') is true
TableConfigured == Truthy(EnvGet(environ, "DYNAMODB_TABLE", Null))

\* the seconds by which the clock may advance during a blocking call, or
\* between two reads of the clock
Delays == IF now < profile.clock THEN {0, 1} ELSE {0}

\* the outcomes of a store call: it fails for a key the table cannot hold,
\* and may fail while faults are left
StoreOutcomes(key) ==
    IF key \notin SessionKeys THEN {FALSE}
    ELSE IF faults < MaxFaults THEN {TRUE, FALSE} ELSE {TRUE}

\* the failures a store call adds to the count
StoreFault(key, ok) == IF key \in SessionKeys /\ ~ok THEN 1 ELSE 0

(***************************************************************************)
(* An instance receives an event: lambda_handler is called.                *)
(***************************************************************************)
Receive(i) ==
    /\ i \in profile.instances
    /\ pc[i] \in {"idle", "done"}
    /\ nreq < profile.quota
    /\ \E e \in Events(profile, nreq + 1) :
          event' = [event EXCEPT ![i] = e]
    /\ nreq' = nreq + 1
    /\ pc' = [pc EXCEPT ![i] = "handler"]
    /\ params' = [params EXCEPT ![i] = NoParams]
    /\ conversation_history' = [conversation_history EXCEPT ![i] = <<>>]
    /\ response_text' = [response_text EXCEPT ![i] = EmptyText]
    /\ processing_time' = [processing_time EXCEPT ![i] = 0]
    /\ calls' = [calls EXCEPT ![i] = <<>>]
    /\ response' = [response EXCEPT ![i] = NoResponse]
    /\ UNCHANGED <<profile, environ, store, now, faults>>

(***************************************************************************)
(* lambda_handler from its first line to the end of the input validation.  *)
(***************************************************************************)
Validate(i) ==
    /\ pc[i] = "handler"
    /\ LET out == HandlerEntry(event[i], environ)
       IN  /\ pc' = [pc EXCEPT ![i] = IF out.kind = "proceed" THEN "history" ELSE "done"]
           /\ params' = [params EXCEPT ![i] = IF out.kind = "proceed" THEN out.params ELSE @]
           /\ response' = [response EXCEPT ![i] =
                              CASE out.kind = "return" -> out.response
                                [] out.kind = "raise" -> Raised(out.exc)
                                [] OTHER -> @]
    /\ UNCHANGED <<profile, environ, store, now, nreq, faults, event,
                   conversation_history, response_text, processing_time, calls>>

(***************************************************************************)
(* The history is read and the user's turn is appended.                    *)
(***************************************************************************)
\* a load that forgets the stored turns
GetNoHistory(session_id, ok) == <<>>

\* get_conversation_history, given whether get_item succeeds
get_conversation_history(session_id, ok) ==
    IF ~TableConfigured THEN <<>>
    ELSE IF ok /\ store[session_id].present THEN store[session_id].messages
    ELSE <<>>

\* a handler that reads the store whether or not a session id was given
ReadsStoreAlways(session_id) == TableConfigured

\* "if session_id: conversation_history = get_conversation_history(session_id)"
\* makes a store call when the session id is true and the table is configured
ReadsStore(session_id) == Truthy(session_id) /\ TableConfigured

LoadHistory(i) ==
    /\ pc[i] = "history"
    /\ LET session_id == params[i].session_id
           reads == ReadsStore(session_id)
       IN  \E ok \in IF reads THEN StoreOutcomes(session_id) ELSE {TRUE} :
              /\ conversation_history' = [conversation_history EXCEPT ![i] =
                    (IF Truthy(session_id) THEN get_conversation_history(session_id, ok) ELSE <<>>)
                    \o <<Turn("user", params[i].message)>>]
              /\ calls' = [calls EXCEPT ![i] =
                    IF reads
                    THEN Append(@, Call("get_item", session_id, NoArg,
                                        IF ok THEN store[session_id] ELSE Null))
                    ELSE @]
              /\ faults' = faults + (IF reads THEN StoreFault(session_id, ok) ELSE 0)
    /\ pc' = [pc EXCEPT ![i] = "invoke"]
    /\ UNCHANGED <<profile, environ, store, now, nreq, event, params,
                   response_text, processing_time, response>>

(***************************************************************************)
(* call_bedrock, and the handler's except clauses when it raises.          *)
(***************************************************************************)
NotCalled == [t |-> "none"]

InvokeModel(i) ==
    /\ pc[i] = "invoke"
    /\ LET p == params[i]
           built == BuildBody(conversation_history[i], p.model_id, p.max_tokens, p.temperature)
       IN  \E outcome \in IF built.ok
                          THEN BackendOutcomes(profile, ModelFamily(p.model_id).v,
                                               faults < MaxFaults)
                          ELSE {NotCalled} :
           \E d \in IF built.ok THEN Delays ELSE {0} :
              LET result == IF built.ok THEN CallBedrockResult(p.model_id, outcome)
                            ELSE CallBedrockRaise(built.exc)
              IN  /\ calls' = [calls EXCEPT ![i] =
                        IF built.ok
                        THEN Append(@, Call("invoke_model", p.model_id, built.v, outcome))
                        ELSE @]
                  /\ faults' = faults + (IF built.ok /\ ~result.ok THEN 1 ELSE 0)
                  /\ now' = now + d
                  /\ processing_time' = [processing_time EXCEPT ![i] = d]
                  /\ response_text' = [response_text EXCEPT ![i] =
                        IF result.ok THEN result.v ELSE @]
                  /\ response' = [response EXCEPT ![i] =
                        IF result.ok THEN @ ELSE HandleException(result.exc)]
                  /\ pc' = [pc EXCEPT ![i] = AfterCallBedrock(result.ok)]
    /\ UNCHANGED <<profile, environ, store, nreq, event, params, conversation_history>>

(***************************************************************************)
(* The history is saved and the handler returns its success response.      *)
(***************************************************************************)
\* "if session_id: save_conversation_history(...)" makes a store call when
\* the session id is true and the table is configured
WritesStore(session_id) == Truthy(session_id) /\ TableConfigured

\* a save whose failure reaches the handler's except clause
SaveHistoryRaising(i) ==
    /\ pc[i] = "save"
    /\ LET p == params[i]
           writes == WritesStore(p.session_id)
           messages == Append(conversation_history[i], Turn("assistant", response_text[i]))
       IN  \E ok \in IF writes THEN StoreOutcomes(p.session_id) ELSE {TRUE} :
           \E d \in IF writes THEN Delays ELSE {0} :
              LET item == Item(SavedMessages(messages), now + d, now + TtlSeconds)
              IN  /\ conversation_history' = [conversation_history EXCEPT ![i] =
                        IF writes THEN messages ELSE @]
                  /\ store' = IF writes THEN PutItem(store, p.session_id, item, ok) ELSE store
                  /\ calls' = [calls EXCEPT ![i] =
                        IF writes
                        THEN Append(@, Call("put_item", p.session_id, item, [ok |-> ok]))
                        ELSE @]
                  /\ faults' = faults + (IF writes THEN StoreFault(p.session_id, ok) ELSE 0)
                  /\ now' = now + d
                  /\ response' = [response EXCEPT ![i] =
                        IF writes /\ ~ok
                        THEN InternalErrorResponse(Exc("ClientError", "put_item failed", NoArg))
                        ELSE SuccessResponse(response_text[i], p.session_id, p.model_id,
                                             processing_time[i])]
    /\ pc' = [pc EXCEPT ![i] = "done"]
    /\ UNCHANGED <<profile, environ, nreq, event, params, response_text, processing_time>>

SaveHistory(i) ==
    /\ pc[i] = "save"
    /\ LET p == params[i]
           writes == WritesStore(p.session_id)
           messages == Append(conversation_history[i], Turn("assistant", response_text[i]))
       IN  \E ok \in IF writes THEN StoreOutcomes(p.session_id) ELSE {TRUE} :
           \E d \in IF writes THEN Delays ELSE {0} :
              LET item == Item(SavedMessages(messages), now + d, now + TtlSeconds)
              IN  /\ conversation_history' = [conversation_history EXCEPT ![i] =
                        IF writes THEN messages ELSE @]
                  /\ store' = IF writes THEN PutItem(store, p.session_id, item, ok) ELSE store
                  /\ calls' = [calls EXCEPT ![i] =
                        IF writes
                        THEN Append(@, Call("put_item", p.session_id, item, [ok |-> ok]))
                        ELSE @]
                  /\ faults' = faults + (IF writes THEN StoreFault(p.session_id, ok) ELSE 0)
                  /\ now' = now + d
                  /\ response' = [response EXCEPT ![i] =
                        SuccessResponse(response_text[i], p.session_id, p.model_id,
                                        processing_time[i])]
    /\ pc' = [pc EXCEPT ![i] = "done"]
    /\ UNCHANGED <<profile, environ, nreq, event, params, response_text, processing_time>>

(***************************************************************************)
(* Time passes.                                                            *)
(***************************************************************************)
Tick ==
    /\ now < profile.clock
    /\ now' = now + 1
    /\ UNCHANGED <<profile, environ, store, nreq, faults, pc, event, params,
                   conversation_history, response_text, processing_time, calls, response>>

Next ==
    \/ Tick
    \/ \E i \in Instances : Receive(i)
    \/ \E i \in Instances : Validate(i)
    \/ \E i \in Instances : LoadHistory(i)
    \/ \E i \in Instances : InvokeModel(i)
    \/ \E i \in Instances : SaveHistory(i)

Spec == Init /\ [][Next]_vars

(***************************************************************************)
(* What the claims speak of, read from the event and the response of an    *)
(* instance rather than from the handler's own variables.                  *)
(***************************************************************************)
RECURSIVE DropLeadingSpace(_)
DropLeadingSpace(s) ==
    IF s = <<>> THEN s
    ELSE IF Head(s).c = " " THEN DropLeadingSpace(Tail(s)) ELSE s

Reverse(s) == [k \in 1..Len(s) |-> s[Len(s) + 1 - k]]

\* a text without the whitespace around it
Trimmed(s) == Reverse(DropLeadingSpace(Reverse(DropLeadingSpace(s))))

\* the instance has run the handler's entry on its event
Entered(i) == pc[i] \notin {"idle", "handler"} /\ event[i].serializable

Finished(i) == pc[i] = "done" /\ event[i].serializable

IsPost(e) == e.httpMethod = Str(Lit("POST"))

IsOptions(e) == e.httpMethod = Str(Lit("OPTIONS"))

\* the body is a string that holds a JSON object
HasObjectBody(e) == e.body.t = "str" /\ e.body.json.t = "obj"

\* a key of the request body; Absent when the event has no body at all
Field(e, key) == IF e.body = Absent THEN Absent ELSE e.body.json.f[key]

\* the body is an object, or the event has no body (the handler reads "{}")
HasFields(e) == e.body = Absent \/ HasObjectBody(e)

MessageMissing(e) ==
    \/ Field(e, "message") = Absent
    \/ Field(e, "message").t = "str" /\ Trimmed(Field(e, "message").v) = <<>>

MessageLength(e) == StrLen(Trimmed(Field(e, "message").v))

MessageTooLong(e) ==
    Field(e, "message").t = "str" /\ MessageLength(e) > 10000

StatusIs(i, code) == response[i].statusCode = code

ErrorIs(i, code, text) == StatusIs(i, code) /\ response[i].body.error.text = text

\* the operations of the external calls of the instance's request, in order
Ops(i) == [k \in 1..Len(calls[i]) |-> calls[i][k].op]

CallsOf(i, op) == {k \in 1..Len(calls[i]) : calls[i][k].op = op}

(***************************************************************************)
(* C1.  The validation rules are checked in order and the first failure    *)
(* decides the response: a method other than POST and OPTIONS gives 405;   *)
(* else a body that does not parse (a text that is not JSON) gives 400,    *)
(* invalid JSON; else a message that is absent or empty once trimmed gives *)
(* 400, message required; else a trimmed message of more than 10,000       *)
(* characters gives 400, too long; whatever the other fields of the        *)
(* request (session_id, model_id, max_tokens, temperature) are.  A body    *)
(* that is null or JSON other than an object is the subject of C2.         *)
(***************************************************************************)
C1_ValidationOrder ==
    \A i \in Instances :
        Entered(i) =>
            LET e == event[i]
            IN  IF ~IsPost(e) THEN IsOptions(e) \/ StatusIs(i, 405)
                ELSE IF e.body = BodyText(NotJson) THEN ErrorIs(i, 400, "invalid JSON format")
                ELSE IF ~HasFields(e) THEN TRUE
                ELSE IF MessageMissing(e) THEN ErrorIs(i, 400, "message is required")
                ELSE IF MessageTooLong(e)
                     THEN ErrorIs(i, 400, "message too long, at most 10,000 characters")
                     ELSE TRUE

(***************************************************************************)
(* C2.  Every POST whose body is not a JSON object (a null body, a text    *)
(* that is not JSON, JSON that is not an object) is answered with the 400  *)
(* invalid-JSON response, never with a 500.                                *)
(***************************************************************************)
C2_MalformedBodyIs400 ==
    \A i \in Instances :
        (Entered(i) /\ IsPost(event[i]) /\ ~HasFields(event[i]))
            => ErrorIs(i, 400, "invalid JSON format")

(***************************************************************************)
(* C3.  The message validation boundary.  For a request that reaches the   *)
(* field validation: a message that is absent, empty or whitespace only    *)
(* gives 400, message required; a message of 1 to 10,000 characters once   *)
(* trimmed is accepted and the request goes on to the history load and the *)
(* invocation; a longer one gives 400, too long, with current_length the   *)
(* trimmed length and max_length 10000.                                    *)
(***************************************************************************)
\* a number the handler can convert, or no number at all
IsNumberOrAbsent(v) == v = Absent \/ v.t = "num" \/ v = Str(Lit("0.7"))

\* the request reaches the field validation
ReachesValidation(e) ==
    /\ e.serializable
    /\ IsPost(e)
    /\ HasFields(e)
    /\ Field(e, "message").t \in {"absent", "str"}
    /\ IsNumberOrAbsent(Field(e, "max_tokens"))
    /\ IsNumberOrAbsent(Field(e, "temperature"))

\* the request went on to the history load and the invocation
Accepted(i) ==
    \/ pc[i] \in {"history", "invoke", "save"}
    \/ pc[i] = "done" /\ ~StatusIs(i, 400) /\ conversation_history[i] # <<>>

C3_MessageBoundary ==
    \A i \in Instances :
        (Entered(i) /\ ReachesValidation(event[i])) =>
            LET e == event[i]
                n == IF Field(e, "message") = Absent THEN 0 ELSE MessageLength(e)
            IN  IF n = 0 THEN ErrorIs(i, 400, "message is required")
                ELSE IF n <= 10000 THEN Accepted(i)
                ELSE /\ ErrorIs(i, 400, "message too long, at most 10,000 characters")
                     /\ response[i].body.current_length = n
                     /\ response[i].body.max_length = 10000

\* a message of more than 10,000 characters that is exactly 10,000 long once
\* trimmed has been accepted and sent to the backend
C3_Witness ==
    \E i \in Instances :
        /\ Finished(i) /\ ReachesValidation(event[i])
        /\ Field(event[i], "message").t = "str"
        /\ StrLen(Field(event[i], "message").v) > 10000
        /\ MessageLength(event[i]) = 10000
        /\ StatusIs(i, 200)

(***************************************************************************)
(* C4.  A request whose model id matches neither family is rejected with   *)
(* the unsupported-model error before any network call: neither the        *)
(* backend nor the store (get or put) is called.                           *)
(***************************************************************************)
UnsupportedModel(e) ==
    /\ Field(e, "model_id").t = "str"
    /\ \A k \in 1..Len(Field(e, "model_id").v) :
          Field(e, "model_id").v[k].c \notin {"anthropic", "amazon.titan"}

\* a request with a valid message and a model id of neither family
AsksUnsupportedModel(i) ==
    /\ Entered(i) /\ ReachesValidation(event[i])
    /\ Field(event[i], "message").t = "str"
    /\ MessageLength(event[i]) \in 1..10000
    /\ UnsupportedModel(event[i])

UnsupportedModelResponse(i) ==
    /\ ErrorIs(i, 500, "server internal error")
    /\ response[i].body.status = "internal_error"
    /\ response[i].body.error.arg.text = "error while calling the model"
    /\ response[i].body.error.arg.arg.text = "unsupported model"

C4_NoNetworkCall ==
    \A i \in Instances :
        AsksUnsupportedModel(i) =>
            /\ calls[i] = <<>>
            /\ pc[i] = "done" => UnsupportedModelResponse(i)

(***************************************************************************)
(* C4, amended.  A request whose model id matches neither family is        *)
(* rejected with the unsupported-model error without any call of the       *)
(* backend and without any write to the store; the history is read first   *)
(* (one get_item) when the request has a session id and the table is       *)
(* configured.                                                             *)
(***************************************************************************)
C4_NoBackendCallNoWrite ==
    \A i \in Instances :
        AsksUnsupportedModel(i) =>
            /\ CallsOf(i, "invoke_model") = {}
            /\ CallsOf(i, "put_item") = {}
            /\ Len(calls[i]) <= 1
            /\ calls[i] # <<>> =>
                  /\ Truthy(Field(event[i], "session_id"))
                  /\ environ.DYNAMODB_TABLE # Absent
            /\ pc[i] = "done" => UnsupportedModelResponse(i)

\* a rejected request that has read the store
C4_Witness ==
    \E i \in Instances :
        /\ AsksUnsupportedModel(i) /\ pc[i] = "done"
        /\ Ops(i) = <<"get_item">>
        /\ UnsupportedModelResponse(i)

(***************************************************************************)
(* What the claims on the stored history speak of.                         *)
(***************************************************************************)
\* the last 20 elements of a sequence, in their order
Newest20(whole) ==
    LET n == IF Len(whole) > 20 THEN 20 ELSE Len(whole)
    IN  [j \in 1..n |-> whole[Len(whole) - n + j]]

\* no other instance has run a request
OthersIdle(i) == \A j \in Instances \ {i} : pc[j] = "idle"

\* the user turn and the assistant turn of a request answered with 200
UserTurn(i) == [role |-> "user", content |-> Trimmed(Field(event[i], "message").v)]

AssistantTurn(i) == [role |-> "assistant", content |-> response[i].body.response]

\* the text of a well-formed reply of the backend
BackendText(call) ==
    IF call.result.body.content # <<>> THEN call.result.body.content[1].text
    ELSE call.result.body.results[1].outputText

\* the request made its three calls, and both store calls succeeded
FullyServed(i) ==
    /\ Finished(i) /\ StatusIs(i, 200)
    /\ Ops(i) = <<"get_item", "invoke_model", "put_item">>
    /\ calls[i][1].result # Null
    /\ calls[i][3].result.ok

(***************************************************************************)
(* C5.  Every stored session record holds at most 20 turns, in every       *)
(* reachable state; a save that is given more than 20 turns writes exactly *)
(* the last 20 of them, in their order and unaltered.                      *)
(***************************************************************************)
C5_AtMost20Turns ==
    /\ \A k \in SessionKeys : Len(store[k].messages) <= 20
    /\ \A i \in Instances : \A c \in CallsOf(i, "put_item") :
          LET given == conversation_history[i]
              kept == calls[i][c].arg.messages
          IN  /\ Len(kept) = IF Len(given) > 20 THEN 20 ELSE Len(given)
              /\ \A j \in 1..Len(kept) : kept[j] = given[Len(given) - Len(kept) + j]
              /\ (calls[i][c].result.ok /\ OthersIdle(i)) => store[calls[i][c].key].messages = kept

\* a save was given 22 turns and the store holds the last 20
C5_Witness ==
    \E i \in Instances : \E c \in CallsOf(i, "put_item") :
        /\ Len(conversation_history[i]) = 22
        /\ calls[i][c].result.ok
        /\ Len(store[calls[i][c].key].messages) = 20
        /\ store[calls[i][c].key].messages[20] = conversation_history[i][22]
        /\ store[calls[i][c].key].messages[1] = conversation_history[i][3]

(***************************************************************************)
(* C6.  For a request with a session id that succeeds, with the table      *)
(* configured, both store calls succeeding and no concurrent request, the  *)
(* record after the request is the last 20 turns of the record before it   *)
(* followed by one user turn holding the trimmed message and one assistant *)
(* turn holding the backend's reply; the assistant turn is the last stored *)
(* turn, also when the record is truncated.                                *)
(***************************************************************************)
C6_ExchangeAppended ==
    \A i \in Instances :
        (FullyServed(i) /\ OthersIdle(i)) =>
            LET key == calls[i][1].key
                recordBefore == calls[i][1].result.messages
                reply == [role |-> "assistant", content |-> BackendText(calls[i][2])]
                whole == recordBefore \o <<UserTurn(i), reply>>
            IN  /\ key = Field(event[i], "session_id")
                /\ store[key].present
                /\ store[key].messages = Newest20(whole)
                /\ store[key].messages[Len(store[key].messages)] = reply
                /\ store[key].messages[Len(store[key].messages) - 1] = UserTurn(i)

\* the request found 20 turns: 22 turns were cut to 20
C6_Witness ==
    \E i \in Instances :
        /\ FullyServed(i) /\ OthersIdle(i)
        /\ Len(calls[i][1].result.messages) = 20
        /\ Len(store[calls[i][1].key].messages) = 20
        /\ store[calls[i][1].key].messages[20] = AssistantTurn(i)

(***************************************************************************)
(* C7.  Two concurrent requests on one session are not isolated: when both *)
(* load the record before either saves, both return 200 and the record     *)
(* afterwards holds the exchange of one of them only (the last write       *)
(* wins); when they are the only two requests and the second loads what   *)
(* the first saved, the record holds both exchanges.                       *)
(***************************************************************************)
BothServed(i, j) ==
    /\ i # j
    /\ FullyServed(i) /\ FullyServed(j)
    /\ calls[i][1].key = calls[j][1].key

C7_LastWriteWins ==
    \A i, j \in Instances :
        BothServed(i, j) =>
            LET key == calls[i][1].key
                Ri == calls[i][1].result
                Rj == calls[j][1].result
                Wi == calls[i][3].arg
                Ei == <<UserTurn(i), AssistantTurn(i)>>
                Ej == <<UserTurn(j), AssistantTurn(j)>>
            IN  /\ Ri = Rj =>
                      store[key].messages \in {Newest20(Ri.messages \o Ei),
                                               Newest20(Ri.messages \o Ej)}
                /\ (nreq = 2 /\ Rj = Wi) =>
                      store[key].messages = Newest20(Ri.messages \o Ei \o Ej)

\* both requests loaded the same record and returned 200, and the record
\* holds the user turn of one of them only
C7_Witness ==
    \E i, j \in Instances :
        /\ BothServed(i, j)
        /\ calls[i][1].result = calls[j][1].result
        /\ UserTurn(i) # UserTurn(j)
        /\ \A k \in 1..Len(store[calls[i][1].key].messages) :
              store[calls[i][1].key].messages[k] # UserTurn(i)
        /\ \E k \in 1..Len(store[calls[i][1].key].messages) :
              store[calls[i][1].key].messages[k] = UserTurn(j)

(***************************************************************************)
(* C8.  Within one request the store read, the backend invocation and the  *)
(* store write happen in that order and at most once each; a write is      *)
(* preceded by an invocation that succeeded, and a failed invocation is    *)
(* the request's last call: it is never retried.                           *)
(***************************************************************************)
StepRank(op) == CASE op = "get_item" -> 1 [] op = "invoke_model" -> 2 [] op = "put_item" -> 3

InvocationFailed(call) == call.op = "invoke_model" /\ call.result.t # "ok"

C8_OrderedNeverRepeated ==
    \A i \in Instances :
        /\ \A a, b \in 1..Len(calls[i]) :
              a < b => StepRank(calls[i][a].op) < StepRank(calls[i][b].op)
        /\ \A c \in CallsOf(i, "put_item") :
              \E b \in CallsOf(i, "invoke_model") : b < c /\ ~InvocationFailed(calls[i][b])
        /\ \A b \in CallsOf(i, "invoke_model") :
              InvocationFailed(calls[i][b]) => (b = Len(calls[i]) /\ pc[i] = "done")

\* one request read, invoked and wrote; another invocation failed after a
\* read while a further failure was still possible, and the request ended
C8_Witness ==
    /\ \E i \in Instances : Ops(i) = <<"get_item", "invoke_model", "put_item">>
    /\ \E i \in Instances :
          /\ Finished(i)
          /\ Ops(i) = <<"get_item", "invoke_model">>
          /\ InvocationFailed(calls[i][2])
          /\ faults < MaxFaults

(***************************************************************************)
(* C9.  Failures of the history store do not reach the caller: a request   *)
(* with a session id whose backend invocation returned a well-formed reply *)
(* is answered 200 with that reply, whether the read failed, the write     *)
(* failed, or both; after a failed read the conversation is the user turn  *)
(* alone.                                                                  *)
(***************************************************************************)
WellFormedReply(call) ==
    /\ call.op = "invoke_model"
    /\ call.result.t = "ok"
    /\ IF Contains(call.key.v, "anthropic")
       THEN "content" \in call.result.body.keys /\ call.result.body.content # <<>>
       ELSE "results" \in call.result.body.keys /\ call.result.body.results # <<>>

ReadFailed(i) == \E c \in CallsOf(i, "get_item") : calls[i][c].result = Null

WriteFailed(i) == \E c \in CallsOf(i, "put_item") : ~calls[i][c].result.ok

C9_StoreFailuresHidden ==
    \A i \in Instances :
        /\ (Entered(i) /\ ReadFailed(i)) =>
              /\ conversation_history[i][1] = UserTurn(i)
              /\ Len(conversation_history[i]) <= 2
              /\ \A c \in CallsOf(i, "put_item") :
                    \E b \in CallsOf(i, "invoke_model") :
                        calls[i][c].arg.messages =
                            <<UserTurn(i), [role |-> "assistant", content |-> BackendText(calls[i][b])]>>
        /\ \A b \in CallsOf(i, "invoke_model") :
              (Finished(i) /\ Truthy(Field(event[i], "session_id")) /\ WellFormedReply(calls[i][b])) =>
                  /\ StatusIs(i, 200)
                  /\ response[i].body.response = BackendText(calls[i][b])
                  /\ response[i].body.status = "success"
                  /\ response[i].body.session_id = Field(event[i], "session_id")

\* the read and the write of a valid session key both failed, and the
\* request was answered 200 with the reply
C9_Witness ==
    \E i \in Instances :
        /\ Finished(i) /\ StatusIs(i, 200)
        /\ ReadFailed(i) /\ WriteFailed(i)
        /\ Field(event[i], "session_id") \in SessionKeys
        /\ response[i].body.response = BackendText(calls[i][2])

(***************************************************************************)
(* C10.  With no table name configured no store call is made and nothing   *)
(* is written, the loaded history is empty, and a request answers what the *)
(* same request without a session id answers, except for the session_id it *)
(* echoes.                                                                 *)
(***************************************************************************)
SameButSessionId(e, f) ==
    /\ IsPost(e) /\ IsPost(f) /\ HasObjectBody(e) /\ HasObjectBody(f)
    /\ \A key \in {"message", "model_id", "max_tokens", "temperature"} : Field(e, key) = Field(f, key)
    /\ Field(f, "session_id") = Absent

WithoutSessionId(r) ==
    IF r.statusCode = 200 THEN [r EXCEPT !.body.session_id = Null] ELSE r

StoreCalls(i) == CallsOf(i, "get_item") \cup CallsOf(i, "put_item")

C10_UnconfiguredStore ==
    environ.DYNAMODB_TABLE = Absent =>
        /\ \A k \in SessionKeys : store[k] = NoItem
        /\ \A i \in Instances :
              /\ StoreCalls(i) = {}
              /\ conversation_history[i] # <<>> => conversation_history[i] = <<UserTurn(i)>>
        /\ \A i, j \in Instances :
              (i # j /\ Finished(i) /\ Finished(j) /\ SameButSessionId(event[i], event[j])) =>
                  /\ Len(calls[i]) = Len(calls[j])
                  /\ (calls[i] # <<>> /\ processing_time[i] = processing_time[j]
                        /\ calls[i][1].result = calls[j][1].result) =>
                          /\ calls[i] = calls[j]
                          /\ WithoutSessionId(response[i]) = WithoutSessionId(response[j])
                  /\ calls[i] = <<>> => response[i] = response[j]
                  /\ StatusIs(i, 200) =>
                        response[i].body.session_id =
                            IF Field(event[i], "session_id") = Absent THEN Null
                            ELSE Field(event[i], "session_id")

\* without a table, a request with a session id and the same request without
\* one were both answered 200, alike but for the session id
C10_Witness ==
    /\ environ.DYNAMODB_TABLE = Absent
    /\ \E i, j \in Instances :
          /\ i # j /\ Finished(i) /\ Finished(j)
          /\ SameButSessionId(event[i], event[j])
          /\ Field(event[i], "session_id") \in SessionKeys
          /\ StatusIs(i, 200) /\ StatusIs(j, 200)
          /\ response[i].body.session_id # response[j].body.session_id
          /\ WithoutSessionId(response[i]) = WithoutSessionId(response[j])

(***************************************************************************)
(* C11.  Session-less mode: a request without a session id makes no store  *)
(* call, also when the table is configured, and the conversation sent to   *)
(* the backend is the new user turn alone; a POST that holds a valid       *)
(* message and nothing else, and whose backend call returns a reply, is    *)
(* answered 200 with that reply, session_id null, the default model id and *)
(* status "success".                                                       *)
(***************************************************************************)
WithoutSession(e) == IsPost(e) /\ HasObjectBody(e) /\ Field(e, "session_id") = Absent

MessageOnly(e) ==
    /\ WithoutSession(e)
    /\ \A key \in {"model_id", "max_tokens", "temperature"} : Field(e, key) = Absent

\* the prompt of one user turn for the second model family
SingleTurnPrompt(turn) == Lit("User: ") \o turn.content \o Lit("\n") \o Lit("Assistant: ")

C11_SessionLess ==
    \A i \in Instances :
        (Entered(i) /\ WithoutSession(event[i])) =>
            /\ StoreCalls(i) = {}
            /\ \A k \in SessionKeys : pc[i] = "done" /\ OthersIdle(i) /\ nreq = 1 => store[k] = NoItem
            /\ \A b \in CallsOf(i, "invoke_model") :
                  /\ b = 1
                  /\ IF Contains(calls[i][b].key.v, "anthropic")
                     THEN calls[i][b].arg.messages = <<UserTurn(i)>>
                     ELSE calls[i][b].arg.inputText = SingleTurnPrompt(UserTurn(i))
                  /\ (Finished(i) /\ MessageOnly(event[i]) /\ WellFormedReply(calls[i][b])) =>
                        /\ StatusIs(i, 200)
                        /\ response[i].body.response = BackendText(calls[i][b])
                        /\ response[i].body.session_id = Null
                        /\ response[i].body.model_used = DefaultModelId
                        /\ response[i].body.status = "success"

\* with the table configured, a message-only request was answered 200 after
\* the backend call alone
C11_Witness ==
    /\ environ.DYNAMODB_TABLE # Absent
    /\ \E i \in Instances :
          /\ Finished(i) /\ StatusIs(i, 200)
          /\ MessageOnly(event[i])
          /\ Ops(i) = <<"invoke_model">>
          /\ response[i].body.session_id = Null

(***************************************************************************)
(* C12.  When invoke_model reports throttling the request is answered 500  *)
(* with error_code "ThrottlingException" and the retry-later message,      *)
(* however many turns were loaded, with or without a session id, for       *)
(* either model family.                                                    *)
(***************************************************************************)
BackendRaised(call, code) ==
    /\ call.op = "invoke_model"
    /\ call.result.t = "raise"
    /\ call.result.exc.type = "ClientError"
    /\ call.result.exc.arg.code = code

Throttled(i) == \E b \in CallsOf(i, "invoke_model") : BackendRaised(calls[i][b], "ThrottlingException")

C12_ThrottlingIs500 ==
    \A i \in Instances :
        (pc[i] = "done" /\ Throttled(i)) =>
            /\ StatusIs(i, 500)
            /\ response[i].body.status = "aws_error"
            /\ response[i].body.error_code = "ThrottlingException"
            /\ response[i].body.error = Msg("too many requests, retry later", NoArg)
            /\ response[i].headers = headers

\* the backend throttled a request of the second family that had loaded 20
\* turns
C12_Witness ==
    \E i \in Instances :
        /\ pc[i] = "done" /\ Throttled(i)
        /\ Len(conversation_history[i]) = 21
        /\ Ops(i) = <<"get_item", "invoke_model">>
        /\ ~Contains(calls[i][2].key.v, "anthropic")
        /\ StatusIs(i, 500)

(***************************************************************************)
(* C13.  Each of the six kinds of backend error (access denied, throttled, *)
(* validation rejected, other backend error, unsupported model, malformed  *)
(* backend response) is answered 500 with a machine-readable discriminator *)
(* in the body that identifies the kind: two requests that failed with     *)
(* different kinds, or one with one of the six kinds and one with an       *)
(* unexpected internal error, differ in the discriminator.                 *)
(***************************************************************************)
\* why a request was answered 500, read from its event and its calls
ErrorKind(i) ==
    IF CallsOf(i, "invoke_model") = {}
    THEN IF AsksUnsupportedModel(i) THEN "unsupported-model" ELSE "unexpected"
    ELSE LET call == calls[i][CHOOSE b \in CallsOf(i, "invoke_model") : TRUE]
         IN  IF call.result.t = "ok"
             THEN IF WellFormedReply(call) THEN "none" ELSE "malformed-backend-response"
             ELSE IF call.result.exc.type # "ClientError" THEN "unexpected"
             ELSE CASE call.result.exc.arg.code = "AccessDeniedException" -> "access-denied"
                    [] call.result.exc.arg.code = "ThrottlingException" -> "throttled"
                    [] call.result.exc.arg.code = "ValidationException" -> "validation-rejected"
                    [] OTHER -> "backend-error"

\* the machine-readable fields of an error body: status and error_code
Discriminator(r) ==
    [status |-> r.body.status,
     error_code |-> IF r.body.status = "aws_error" THEN r.body.error_code ELSE "absent"]

FailedWith500(i) == pc[i] = "done" /\ event[i].serializable /\ StatusIs(i, 500)

C13_KindsDistinguishable ==
    \A i, j \in Instances :
        (i # j /\ FailedWith500(i) /\ FailedWith500(j) /\ ErrorKind(i) # ErrorKind(j)) =>
            Discriminator(response[i]) # Discriminator(response[j])

(***************************************************************************)
(* C14.  For every event and every outcome of the backend and store calls  *)
(* lambda_handler ends by returning a response, never by raising: the      *)
(* status code is 200, 400, 405 or 500 and the response carries the four   *)
(* fixed headers, whichever step of the handler failed, the first          *)
(* included.                                                               *)
(***************************************************************************)
FixedHeaders ==
    [ContentType |-> "application/json; charset=utf-8",
     AccessControlAllowOrigin |-> "*",
     AccessControlAllowMethods |-> "POST, OPTIONS",
     AccessControlAllowHeaders |-> "Content-Type, Authorization, X-Requested-With"]

C14_AlwaysResponds ==
    \A i \in Instances :
        pc[i] = "done" =>
            /\ response[i].statusCode \in {200, 400, 405, 500}
            /\ response[i].headers = FixedHeaders

(***************************************************************************)
(* C15.  Every save that writes stores updated_at equal to the current     *)
(* time and ttl equal to the current time + 86400 seconds: every item      *)
(* that put_item wrote, and so every stored record, has                    *)
(* ttl = updated_at + 86400.                                               *)
(***************************************************************************)
C15_ExpiryIsUpdatePlusDay ==
    /\ \A i \in Instances : \A c \in CallsOf(i, "put_item") :
          calls[i][c].result.ok => calls[i][c].arg.ttl = calls[i][c].arg.updated_at + 86400
    /\ \A k \in SessionKeys :
          store[k].present => store[k].ttl = store[k].updated_at + 86400

(***************************************************************************)
(* C16.  A request with method OPTIONS is answered with the fixed 200      *)
(* acknowledgment whatever its body is (absent, null, not JSON, any JSON), *)
(* and makes no store read, no backend invocation and no store write.      *)
(***************************************************************************)
Acknowledgment ==
    [statusCode |-> 200, headers |-> FixedHeaders, body |-> [message |-> "CORS preflight successful"]]

C16_PreflightShortCircuits ==
    \A i \in Instances :
        (Entered(i) /\ IsOptions(event[i])) =>
            /\ pc[i] = "done"
            /\ response[i] = Acknowledgment
            /\ calls[i] = <<>>
            /\ conversation_history[i] = <<>>
            /\ nreq = 1 => \A k \in SessionKeys : store[k] = NoItem

\* an OPTIONS request whose body is null or is not JSON was acknowledged
C16_Witness ==
    \E i \in Instances :
        /\ Finished(i) /\ IsOptions(event[i])
        /\ event[i].body \in {BodyText(NotJson), Null}
        /\ response[i] = Acknowledgment

(***************************************************************************)
(* C17.  For a model id of the amazon.titan family the prompt sent to the  *)
(* backend is the concatenation, in conversation order, of one line        *)
(* "User: <content>\n" or "Assistant: <content>\n" per turn, followed by   *)
(* "Assistant: "; the turns [user Hi, assistant Hello] give                *)
(* "User: Hi\nAssistant: Hello\nAssistant: ".                              *)
(***************************************************************************)
PromptLine(turn) ==
    <<[c |-> IF turn.role = "user" THEN "User: " ELSE "Assistant: ", n |-> 1]>>
    \o turn.content \o <<[c |-> "\n", n |-> 1]>>

\* the lines of the first n turns, one after the other
RECURSIVE PromptLines(_, _)
PromptLines(conversation, n) ==
    IF n = 0 THEN <<>> ELSE PromptLines(conversation, n - 1) \o PromptLine(conversation[n])

\* the conversation of a request, from what get_item returned and the event
ConversationOf(i) ==
    (IF \E c \in CallsOf(i, "get_item") : calls[i][c].result # Null
     THEN calls[i][1].result.messages
     ELSE <<>>) \o <<UserTurn(i)>>

NewLines(text) == {k \in 1..Len(text) : text[k].c = "\n"}

C17_TitanPrompt ==
    /\ format_messages_for_titan(<<[role |-> "user", content |-> <<[c |-> "Hi", n |-> 1]>>],
                                   [role |-> "assistant", content |-> <<[c |-> "Hello", n |-> 1]>>]>>)
         = <<[c |-> "User: ", n |-> 1], [c |-> "Hi", n |-> 1], [c |-> "\n", n |-> 1],
             [c |-> "Assistant: ", n |-> 1], [c |-> "Hello", n |-> 1], [c |-> "\n", n |-> 1],
             [c |-> "Assistant: ", n |-> 1]>>
    /\ \A i \in Instances : \A b \in CallsOf(i, "invoke_model") :
          (~Contains(calls[i][b].key.v, "anthropic") /\ Contains(calls[i][b].key.v, "amazon.titan")) =>
              LET prompt == calls[i][b].arg.inputText
                  conversation == ConversationOf(i)
              IN  /\ prompt = PromptLines(conversation, Len(conversation))
                               \o <<[c |-> "Assistant: ", n |-> 1]>>
                  /\ Cardinality(NewLines(prompt)) = Len(conversation)
                  /\ prompt[Len(prompt)].c = "Assistant: "

\* a prompt was built from 21 turns: 20 loaded ones and the new user turn
C17_Witness ==
    \E i \in Instances : \E b \in CallsOf(i, "invoke_model") :
        /\ ~Contains(calls[i][b].key.v, "anthropic")
        /\ Len(ConversationOf(i)) = 21
        /\ Cardinality(NewLines(calls[i][b].arg.inputText)) = 21
        /\ calls[i][b].arg.inputText[4].c = "Assistant: "

(***************************************************************************)
(* C18.  Starting from an empty store and with the handler as the only     *)
(* writer, every stored record has an even number of turns, begins with a  *)
(* user turn and alternates user and assistant turns, whatever the         *)
(* interleaving of the requests and the failures of the store and of the   *)
(* backend: the truncation to 20 turns never leaves a record that begins   *)
(* with an assistant turn.                                                 *)
(***************************************************************************)
Alternates(turns) ==
    /\ Len(turns) % 2 = 0
    /\ \A k \in 1..Len(turns) :
          turns[k].role = IF k % 2 = 1 THEN "user" ELSE "assistant"

C18_RecordsAlternate ==
    /\ \A k \in SessionKeys : Alternates(store[k].messages)
    /\ \A i \in Instances : \A c \in CallsOf(i, "put_item") : Alternates(calls[i][c].arg.messages)

\* a record was cut from 22 turns to 20 and begins with a user turn
C18_Witness ==
    \E i \in Instances : \E c \in CallsOf(i, "put_item") :
        /\ Len(conversation_history[i]) = 22
        /\ calls[i][c].result.ok
        /\ store[calls[i][c].key].messages = calls[i][c].arg.messages
        /\ Len(store[calls[i][c].key].messages) = 20
        /\ store[calls[i][c].key].messages[1].role = "user"
        /\ store[calls[i][c].key].messages[20].role = "assistant"

(***************************************************************************)
(* C19.  The store is written only by a request whose backend invocation   *)
(* returned a reply: a request answered 400, 405 or 500 has made no        *)
(* put_item, every step that changes the store is the save of a request    *)
(* that is answered 200 after a well-formed reply, and every item written  *)
(* ends with the request's user turn followed by its assistant turn.       *)
(***************************************************************************)
GotReply(i) == \E b \in CallsOf(i, "invoke_model") : WellFormedReply(calls[i][b])

EndsWithExchange(i, turns) ==
    /\ Len(turns) >= 2
    /\ turns[Len(turns) - 1] = UserTurn(i)
    /\ \E b \in CallsOf(i, "invoke_model") :
          turns[Len(turns)] = [role |-> "assistant", content |-> BackendText(calls[i][b])]

RejectedWritesNothing ==
    \A i \in Instances :
        /\ (pc[i] = "done" /\ response[i].statusCode # 200) => CallsOf(i, "put_item") = {}
        /\ \A c \in CallsOf(i, "put_item") :
              GotReply(i) /\ EndsWithExchange(i, calls[i][c].arg.messages)

StoreChangedBySave ==
    store' # store =>
        \E i \in Instances :
            /\ pc[i] = "save" /\ pc'[i] = "done"
            /\ response'[i].statusCode = 200
            /\ GotReply(i)
            /\ \E k \in SessionKeys :
                  /\ \A other \in SessionKeys \ {k} : store'[other] = store[other]
                  /\ k = params[i].session_id
                  /\ EndsWithExchange(i, store'[k].messages)

C19_WriteOnlyAfterReply == [](RejectedWritesNothing) /\ [][StoreChangedBySave]_vars

\* a request read a stored record, its backend call failed, it was answered
\* 500 and the record is as it was read
C19_Witness ==
    \E i \in Instances :
        /\ pc[i] = "done" /\ StatusIs(i, 500)
        /\ Ops(i) = <<"get_item", "invoke_model">>
        /\ calls[i][1].result # Null
        /\ calls[i][1].result.present
        /\ OthersIdle(i)
        /\ store[calls[i][1].key] = calls[i][1].result

(***************************************************************************)
(* C20.  A failed store read never loses stored history: when a request    *)
(* with a session id whose get_item failed goes on to a successful backend *)
(* invocation and a successful put_item, with no other request running,    *)
(* the record after the write is the last 20 turns of the record before it *)
(* followed by the new user and assistant turns.                           *)
(***************************************************************************)
SavedAfterFailedRead(i) ==
    /\ pc[i] = "save" /\ pc'[i] = "done"
    /\ ReadFailed(i)
    /\ OthersIdle(i)
    /\ params[i].session_id \in SessionKeys
    /\ store'[params[i].session_id] # store[params[i].session_id]

C20_FailedReadKeepsHistory ==
    [][\A i \in Instances :
          SavedAfterFailedRead(i) =>
              store'[params[i].session_id].messages =
                  Newest20(store[params[i].session_id].messages
                           \o <<UserTurn(i), [role |-> "assistant", content |-> response_text[i]]>>)]_vars

====
